---- MODULE Spec2Model ----
(***************************************************************************)
(* Indic locale utilities: the script registry (indic-scripts.ts) and the  *)
(* numeral / number / date formatter (formatting/indic.ts, listed in       *)
(* INDIC_ROADMAP.md).                                                      *)
(*                                                                         *)
(* A JavaScript string is a sequence of UTF-16 code units.  An ASCII code  *)
(* unit is written as the one-character string itself ("7", ","); every    *)
(* other code unit is written "U+XXXX".  All digit glyphs of the source    *)
(* are in the Basic Multilingual Plane, one code unit each.                *)
(***************************************************************************)
EXTENDS Integers, Sequences, FiniteSets, TLC

VARIABLES
    LANGUAGE_TO_SCRIPT_MAP, \* indic-scripts.ts: language code -> script(s)
    INDIC_SCRIPT_INFO,      \* indic-scripts.ts: script code -> properties
    NATIVE_DIGITS,          \* formatting/indic.ts: script code -> 10 glyphs
    fn,                     \* the function called last ("none" before any call)
    number,                 \* its number argument
    decimals,               \* its decimals argument, Omitted or Given(d)
    useNativeDigits,        \* its useNativeDigits argument
    languageCode,           \* its languageCode argument ("undefined" when omitted)
    text,                   \* its string argument
    script,                 \* its scriptCode argument
    date,                   \* its Date argument
    format,                 \* options.format ("[undefined]" when omitted)
    separator,              \* options.separator ("[undefined]" when omitted)
    result,                 \* the value it returned
    thrown                  \* the exception it raised instead ("[null]": none)

vars == <<LANGUAGE_TO_SCRIPT_MAP, INDIC_SCRIPT_INFO, NATIVE_DIGITS, fn, number,
          decimals, useNativeDigits, languageCode, text, script, date,
          format, separator, result, thrown>>

registry == <<LANGUAGE_TO_SCRIPT_MAP, INDIC_SCRIPT_INFO, NATIVE_DIGITS>>

-----------------------------------------------------------------------------
(* Bounds of the model                                                     *)

\* longest string handed to toNativeNumerals / fromNativeNumerals
MaxLen == 3
\* plain integers 0 .. MaxSmall are number arguments
MaxSmall == 30
\* integers within NearWidth of a power of ten or of a dispatch threshold
NearWidth == 12
\* largest decimals argument
MaxDecimals == 3
\* largest leading digit of the numbers m * 10^k beyond 2^31
MaxLead == 2
\* numbers m * 10^k are taken for k up to MaxExp10
MaxExp10 == 21

-----------------------------------------------------------------------------
(* Strings                                                                 *)

\* the code units of an ASCII string literal, one per character
Chars(s) == [i \in 1..Len(s) |-> SubSeq(s, i, i)]

AsciiDigits == Chars("0123456789")

\* /\d/ without the unicode flag: exactly the ASCII digits
IsAsciiDigit(c) == \E i \in 1..10 : AsciiDigits[i] = c

\* parseInt(digit, 10) of one ASCII digit
parseInt(c) == (CHOOSE i \in 1..10 : AsciiDigits[i] = c) - 1

\* String(index) for index 0..9
DigitToString(d) == AsciiDigits[d + 1]

-----------------------------------------------------------------------------
(* Script registry: data                                                   *)

\* a value of LANGUAGE_TO_SCRIPT_MAP: one script code, or an array of them
One(s) == [isArray |-> FALSE, scripts |-> <<s>>]
Many(ss) == [isArray |-> TRUE, scripts |-> ss]

LanguageToScriptMapData ==
    [hi |-> One("Deva"), mr |-> One("Deva"), sa |-> One("Deva"),
     ne |-> One("Deva"), kok |-> One("Deva"), mai |-> One("Deva"),
     doi |-> One("Deva"), bn |-> One("Beng"), as |-> One("Beng"),
     pa |-> Many(<<"Guru", "Arab">>), gu |-> One("Gujr"), or |-> One("Orya"),
     ta |-> One("Taml"), te |-> One("Telu"), kn |-> One("Knda"),
     ml |-> One("Mlym"), mni |-> Many(<<"Beng", "Mtei">>), sat |-> One("Olck"),
     ks |-> Many(<<"Arab", "Deva">>), sd |-> Many(<<"Arab", "Deva">>),
     ur |-> One("Arab"), brx |-> One("Deva")]

\* a variant that files the display name as the code
InfoCodeFromName(c, n, d, h, l) ==
    [code |-> n, name |-> n, direction |-> d, hasNativeNumerals |-> h, languages |-> l]

Info(c, n, d, h, l) ==
    [code |-> c, name |-> n, direction |-> d, hasNativeNumerals |-> h, languages |-> l]

IndicScriptInfoData ==
    [Deva |-> Info("Deva", "Devanagari", "ltr", TRUE,
                   <<"hi", "mr", "sa", "ne", "kok", "mai", "doi", "brx">>),
     Beng |-> Info("Beng", "Bengali", "ltr", TRUE, <<"bn", "as", "mni">>),
     Guru |-> Info("Guru", "Gurmukhi", "ltr", TRUE, <<"pa">>),
     Gujr |-> Info("Gujr", "Gujarati", "ltr", TRUE, <<"gu">>),
     Orya |-> Info("Orya", "Odia", "ltr", TRUE, <<"or">>),
     Taml |-> Info("Taml", "Tamil", "ltr", TRUE, <<"ta">>),
     Telu |-> Info("Telu", "Telugu", "ltr", TRUE, <<"te">>),
     Knda |-> Info("Knda", "Kannada", "ltr", TRUE, <<"kn">>),
     Mlym |-> Info("Mlym", "Malayalam", "ltr", TRUE, <<"ml">>),
     Sinh |-> Info("Sinh", "Sinhala", "ltr", TRUE, <<"si">>),
     Mtei |-> Info("Mtei", "Meitei Mayek", "ltr", TRUE, <<"mni">>),
     Olck |-> Info("Olck", "Ol Chiki", "ltr", TRUE, <<"sat">>),
     Arab |-> Info("Arab", "Arabic", "rtl", TRUE, <<"ur", "ks", "sd", "pa">>),
     Latn |-> Info("Latn", "Latin", "ltr", FALSE, <<>>)]

\* a variant with a glyph typed twice in the Devanagari row
NativeDigitsDataWithTypo ==
    [Deva |-> <<"U+0966", "U+0967", "U+0968", "U+0968", "U+096A",
                "U+096B", "U+096C", "U+096D", "U+096E", "U+096F">>,
     Beng |-> <<"U+09E6", "U+09E7", "U+09E8", "U+09E9", "U+09EA",
                "U+09EB", "U+09EC", "U+09ED", "U+09EE", "U+09EF">>]

NativeDigitsData ==
    [Deva |-> <<"U+0966", "U+0967", "U+0968", "U+0969", "U+096A",
                "U+096B", "U+096C", "U+096D", "U+096E", "U+096F">>,
     Beng |-> <<"U+09E6", "U+09E7", "U+09E8", "U+09E9", "U+09EA",
                "U+09EB", "U+09EC", "U+09ED", "U+09EE", "U+09EF">>,
     Guru |-> <<"U+0A66", "U+0A67", "U+0A68", "U+0A69", "U+0A6A",
                "U+0A6B", "U+0A6C", "U+0A6D", "U+0A6E", "U+0A6F">>,
     Gujr |-> <<"U+0AE6", "U+0AE7", "U+0AE8", "U+0AE9", "U+0AEA",
                "U+0AEB", "U+0AEC", "U+0AED", "U+0AEE", "U+0AEF">>,
     Orya |-> <<"U+0B66", "U+0B67", "U+0B68", "U+0B69", "U+0B6A",
                "U+0B6B", "U+0B6C", "U+0B6D", "U+0B6E", "U+0B6F">>,
     Taml |-> <<"U+0BE6", "U+0BE7", "U+0BE8", "U+0BE9", "U+0BEA",
                "U+0BEB", "U+0BEC", "U+0BED", "U+0BEE", "U+0BEF">>,
     Telu |-> <<"U+0C66", "U+0C67", "U+0C68", "U+0C69", "U+0C6A",
                "U+0C6B", "U+0C6C", "U+0C6D", "U+0C6E", "U+0C6F">>,
     Knda |-> <<"U+0CE6", "U+0CE7", "U+0CE8", "U+0CE9", "U+0CEA",
                "U+0CEB", "U+0CEC", "U+0CED", "U+0CEE", "U+0CEF">>,
     Mlym |-> <<"U+0D66", "U+0D67", "U+0D68", "U+0D69", "U+0D6A",
                "U+0D6B", "U+0D6C", "U+0D6D", "U+0D6E", "U+0D6F">>,
     Mtei |-> <<"U+ABF0", "U+ABF1", "U+ABF2", "U+ABF3", "U+ABF4",
                "U+ABF5", "U+ABF6", "U+ABF7", "U+ABF8", "U+ABF9">>,
     Olck |-> <<"U+1C50", "U+1C51", "U+1C52", "U+1C53", "U+1C54",
                "U+1C55", "U+1C56", "U+1C57", "U+1C58", "U+1C59">>]

\* The Native Numerals column of the Supported Scripts table: the glyphs the
\* package documents for each script, Arabic included.
DocumentedNativeNumerals ==
    [s \in DOMAIN NativeDigitsData \cup {"Arab"} |->
        IF s = "Arab"
        THEN <<"U+0660", "U+0661", "U+0662", "U+0663", "U+0664",
               "U+0665", "U+0666", "U+0667", "U+0668", "U+0669">>
        ELSE NativeDigitsData[s]]

-----------------------------------------------------------------------------
(* Script registry: queries                                                *)

\* Properties every plain object inherits from Object.prototype; obj[key]
\* and (key in obj) find them when obj has no own property of that name.
ObjectPrototypeKeys ==
    {"constructor", "toString", "toLocaleString", "valueOf", "hasOwnProperty",
     "isPrototypeOf", "propertyIsEnumerable", "__proto__"}

\* getScriptForLanguage's results that are no script code
Null == "[null]"
Undefined == "[undefined]"
Inherited == "[inherited]"

\* an optional argument: left out, or given with a value; a parameter with a
\* default takes the default when the argument is left out
Omitted == <<>>
Given(v) == <<v>>
OrDefault(arg, default) == IF arg = Omitted THEN default ELSE arg[1]

\* !value, for a string, null or undefined
Falsy(v) == v \in {Null, Undefined, ""}

\* a variant that looks at the relation's own keys only
isIndicLanguageOwnKeys(lang) == lang \in DOMAIN LANGUAGE_TO_SCRIPT_MAP

\* languageCode in LANGUAGE_TO_SCRIPT_MAP
isIndicLanguage(lang) ==
    lang \in DOMAIN LANGUAGE_TO_SCRIPT_MAP \/ lang \in ObjectPrototypeKeys

\* a variant that falls back to Devanagari for a code it does not find
getScriptForLanguageOrDeva(lang) ==
    IF lang \in DOMAIN LANGUAGE_TO_SCRIPT_MAP
    THEN LANGUAGE_TO_SCRIPT_MAP[lang].scripts[1]
    ELSE "Deva"

getScriptForLanguage(lang) ==
    IF lang \in DOMAIN LANGUAGE_TO_SCRIPT_MAP
    THEN LET scripts == LANGUAGE_TO_SCRIPT_MAP[lang]
         IN  IF scripts.isArray
             THEN IF scripts.scripts = <<>> THEN Undefined ELSE scripts.scripts[1]
             ELSE scripts.scripts[1]
    ELSE IF lang \in ObjectPrototypeKeys
         THEN Inherited   \* truthy, not an array: returned as it is
         ELSE Null

\* a variant that returns the primary script alone
getAllScriptsForLanguagePrimaryOnly(lang) ==
    IF lang \in DOMAIN LANGUAGE_TO_SCRIPT_MAP
    THEN <<LANGUAGE_TO_SCRIPT_MAP[lang].scripts[1]>>
    ELSE <<>>

\* an array is truthy even when empty; a single code is wrapped in a list
getAllScriptsForLanguage(lang) ==
    IF lang \in DOMAIN LANGUAGE_TO_SCRIPT_MAP
    THEN LANGUAGE_TO_SCRIPT_MAP[lang].scripts
    ELSE IF lang \in ObjectPrototypeKeys
         THEN <<Inherited>>   \* truthy, not an array: wrapped as it is
         ELSE <<>>

\* a variant that answers true for a script code it does not find
hasNativeNumeralsFailOpen(scriptCode) ==
    IF scriptCode \in DOMAIN INDIC_SCRIPT_INFO
    THEN INDIC_SCRIPT_INFO[scriptCode].hasNativeNumerals
    ELSE TRUE

\* INDIC_SCRIPT_INFO[scriptCode]?.hasNativeNumerals || false; no value
\* inherited from Object.prototype has a hasNativeNumerals property
hasNativeNumerals(scriptCode) ==
    IF scriptCode \in DOMAIN INDIC_SCRIPT_INFO
    THEN INDIC_SCRIPT_INFO[scriptCode].hasNativeNumerals
    ELSE FALSE

\* a variant without the default
getScriptDirectionNoDefault(scriptCode) ==
    IF scriptCode \in DOMAIN INDIC_SCRIPT_INFO
    THEN INDIC_SCRIPT_INFO[scriptCode].direction
    ELSE Undefined

\* INDIC_SCRIPT_INFO[scriptCode]?.direction || "ltr"; no value inherited
\* from Object.prototype has a direction property
getScriptDirection(scriptCode) ==
    IF scriptCode \in DOMAIN INDIC_SCRIPT_INFO
       /\ ~Falsy(INDIC_SCRIPT_INFO[scriptCode].direction)
    THEN INDIC_SCRIPT_INFO[scriptCode].direction
    ELSE "ltr"

\* the name property of the value a plain object inherits under the key: the
\* methods of Object.prototype are functions named after their key, the
\* constructor is the function Object, and __proto__ is Object.prototype
\* itself, which has no name
InheritedName(key) ==
    IF key = "constructor" THEN "Object"
    ELSE IF key = "__proto__" THEN Undefined
    ELSE key

\* INDIC_SCRIPT_INFO[scriptCode]?.name || scriptCode
getIndicScriptName(scriptCode) ==
    LET name == IF scriptCode \in DOMAIN INDIC_SCRIPT_INFO
                THEN INDIC_SCRIPT_INFO[scriptCode].name
                ELSE IF scriptCode \in ObjectPrototypeKeys
                     THEN InheritedName(scriptCode)
                     ELSE Undefined
    IN  IF Falsy(name) THEN scriptCode ELSE name

-----------------------------------------------------------------------------
(* Digit substitution                                                      *)

\* a variant whose pattern takes the minus sign for a digit too
ReplaceDigitsAndMinus(str, digits) ==
    [i \in 1..Len(str) |->
        IF IsAsciiDigit(str[i]) THEN digits[parseInt(str[i]) + 1]
        ELSE IF str[i] = "-" THEN digits[1] ELSE str[i]]

\* String.prototype.replace(/\d/g, digit => digits[parseInt(digit, 10)])
ReplaceAsciiDigits(str, digits) ==
    [i \in 1..Len(str) |->
        IF IsAsciiDigit(str[i]) THEN digits[parseInt(str[i]) + 1] ELSE str[i]]

\* what an operator yields when the call raises a SyntaxError
SyntaxError == <<"[SyntaxError]">>

\* str.replace(new RegExp(pattern, "g"), replacement) for a pattern of one
\* code unit and a string without line terminators.  The pattern is compiled
\* as it is: a quantifier, bracket, parenthesis or backslash alone is no
\* regular expression, "." matches every code unit, "^", "$" and "|" match
\* the empty string at the start, at the end, and at every position; any
\* other code unit matches itself.
ReplaceAll(str, pattern, replacement) ==
    IF pattern \in {"*", "+", "?", "(", ")", "[", "\\"} THEN SyntaxError
    ELSE IF pattern = "." THEN [i \in 1..Len(str) |-> replacement]
    ELSE IF pattern = "^" THEN <<replacement>> \o str
    ELSE IF pattern = "$" THEN str \o <<replacement>>
    ELSE IF pattern = "|"
         THEN [i \in 1..(2 * Len(str) + 1) |->
                  IF i % 2 = 1 THEN replacement ELSE str[i \div 2]]
    ELSE [i \in 1..Len(str) |-> IF str[i] = pattern THEN replacement ELSE str[i]]

\* toNativeNumerals after String(number): str is the stringified value
toNativeNumerals(str, lang) ==
    LET scriptCode == getScriptForLanguage(lang)
    IN  IF Falsy(scriptCode) \/ ~hasNativeNumerals(scriptCode)
        THEN str
        ELSE IF scriptCode \notin DOMAIN NATIVE_DIGITS
             THEN str
             ELSE ReplaceAsciiDigits(str, NATIVE_DIGITS[scriptCode])

\* a variant that leaves the glyph of index 0 alone
RECURSIVE ForEachDigitButZero(_, _, _)
ForEachDigitButZero(res, digits, index) ==
    IF index > Len(digits) - 1
    THEN res
    ELSE ForEachDigitButZero(
             IF index = 0 THEN res
             ELSE ReplaceAll(res, digits[index + 1], DigitToString(index)),
             digits, index + 1)

\* digits.forEach((nativeDigit, index) => result = result.replace(...)),
\* from index on
RECURSIVE ForEachDigit(_, _, _)
ForEachDigit(res, digits, index) ==
    IF index > Len(digits) - 1 \/ res = SyntaxError
    THEN res
    ELSE ForEachDigit(ReplaceAll(res, digits[index + 1], DigitToString(index)),
                      digits, index + 1)

fromNativeNumerals(txt, lang) ==
    LET scriptCode == getScriptForLanguage(lang)
    IN  IF Falsy(scriptCode) \/ ~hasNativeNumerals(scriptCode)
        THEN txt
        ELSE IF scriptCode \notin DOMAIN NATIVE_DIGITS
             THEN txt
             ELSE ForEachDigit(txt, NATIVE_DIGITS[scriptCode], 0)

-----------------------------------------------------------------------------
(* Numbers                                                                 *)
(*                                                                         *)
(* A number argument is an integer-valued double, held as mant * 10^exp10. *)
(* Ordinary integers have exp10 = 0; the integers beyond 2^31 of the model *)
(* are m * 10^k with m <= 3 and k <= 22, all of them exact doubles.        *)

Num(n) == [mant |-> n, exp10 |-> 0]

Abs(i) == IF i < 0 THEN -i ELSE i

\* Math.abs(number)
MathAbs(x) == [mant |-> Abs(x.mant), exp10 |-> x.exp10]

\* a variant that takes zero for negative
IsNegativeOrZero(x) == x.mant <= 0

\* number < 0
IsNegative(x) == x.mant < 0

RECURSIVE Pow10(_)
Pow10(k) == IF k = 0 THEN 1 ELSE 10 * Pow10(k - 1)

\* the decimal digits of a natural number, most significant first
RECURSIVE Digits(_)
Digits(n) ==
    IF n < 10 THEN <<DigitToString(n)>>
    ELSE Digits(n \div 10) \o <<DigitToString(n % 10)>>

Zeros(k) == [i \in 1..k |-> "0"]

RECURSIVE StripTrailingZeros(_)
StripTrailingZeros(ds) ==
    IF Len(ds) > 1 /\ ds[Len(ds)] = "0"
    THEN StripTrailingZeros(SubSeq(ds, 1, Len(ds) - 1))
    ELSE ds

\* String(x) for an integer-valued number x >= 0 (Number::toString, radix 10):
\* plain decimal digits up to 21 digits, exponent notation from 10^21 on
NonNegativeToString(x) ==
    LET ds == Digits(x.mant)
        n  == Len(ds) + x.exp10
        s  == StripTrailingZeros(ds)
    IN  IF x.mant = 0 THEN <<"0">>
        ELSE IF n <= 21 THEN ds \o Zeros(x.exp10)
        ELSE <<s[1]>> \o (IF Len(s) > 1 THEN <<".">> \o Tail(s) ELSE <<>>)
                     \o <<"e", "+">> \o Digits(n - 1)

\* String(number)
NumberToString(x) ==
    IF IsNegative(x) THEN <<"-">> \o NonNegativeToString(MathAbs(x))
    ELSE NonNegativeToString(x)

\* a variant with the strict comparison x > k
RECURSIVE GreaterThan(_, _)
GreaterThan(x, k) ==
    IF x.exp10 = 0 \/ x.mant = 0 \/ x.mant > k
    THEN x.mant > k
    ELSE GreaterThan([mant |-> 10 * x.mant, exp10 |-> x.exp10 - 1], k)

\* x >= k for x >= 0 and a constant 0 < k < 10^8
RECURSIVE GreaterOrEqual(_, _)
GreaterOrEqual(x, k) ==
    IF x.exp10 = 0 \/ x.mant = 0 \/ x.mant >= k
    THEN x.mant >= k
    ELSE GreaterOrEqual([mant |-> 10 * x.mant, exp10 |-> x.exp10 - 1], k)

\* the value of x as an integer, for x below 2^31
IntValue(x) == x.mant * Pow10(x.exp10)

-----------------------------------------------------------------------------
(* Double arithmetic of the quotient number / divisor                      *)

RECURSIVE ILog2(_)
ILog2(n) == IF n < 2 THEN 0 ELSE 1 + ILog2(n \div 2)

RECURSIVE ShiftUp(_, _)
ShiftUp(n, d) == IF n >= d THEN 0 ELSE 1 + ShiftUp(2 * n, d)

\* (a * 2^k) mod m
RECURSIVE MulPow2Mod(_, _, _)
MulPow2Mod(a, k, m) == IF k = 0 THEN a % m ELSE MulPow2Mod((2 * a) % m, k - 1, m)

\* The sign of RN(n / d) - n / d for integers n > 0, d > 0, where RN rounds to
\* the nearest double (53-bit significand, ties to even): with 2^52 <=
\* n * 2^k / d < 2^53 the significand is n * 2^k / d rounded to an integer.
DoubleError(n, d) ==
    LET k   == IF n >= d THEN 52 - ILog2(n \div d) ELSE 52 + ShiftUp(n, d)
        t   == MulPow2Mod(n % (2 * d), k, 2 * d)
        r   == t % d
        odd == t >= d
    IN  IF r = 0 THEN 0
        ELSE IF 2 * r < d THEN -1
        ELSE IF 2 * r > d THEN 1
        ELSE IF odd THEN 1 ELSE -1

\* the digits of r / 10^dec with exactly dec digits after the point
FixedDigits(r, dec) ==
    LET frac == Digits(r % Pow10(dec))
    IN  Digits(r \div Pow10(dec))
        \o (IF dec = 0 THEN <<>> ELSE <<".">> \o Zeros(dec - Len(frac)) \o frac)

\* Number.prototype.toFixed accepts 0 to 100 fraction digits
MaxFractionDigits == 100

\* what an operator yields when the call raises a RangeError
RangeError == <<"[RangeError]">>

\* a variant that cuts the digits off instead of rounding
toFixedTruncating(x, p, dec) ==
    IF dec > MaxFractionDigits THEN RangeError
    ELSE LET a == MathAbs(x)
         IN  (IF IsNegative(x) THEN <<"-">> ELSE <<>>)
             \o (IF a.exp10 >= p
                 THEN NonNegativeToString([mant |-> a.mant, exp10 |-> a.exp10 - p])
                      \o (IF dec = 0 THEN <<>> ELSE <<".">> \o Zeros(dec))
                 ELSE FixedDigits(IntValue(a) \div Pow10(p - dec), dec))

\* (number / divisor).toFixed(dec) for divisor = 10^p and dec < p, or dec
\* beyond the accepted range: Number.prototype.toFixed throws a RangeError
\* for more than 100 fraction digits, and otherwise takes the integer r
\* closest to the exact value of the double times 10^dec, the larger one of
\* two equally close.
toFixed(x, p, dec) ==
    LET sign == IF IsNegative(x) THEN <<"-">> ELSE <<>>
        a    == MathAbs(x)
    IN  IF dec > MaxFractionDigits THEN RangeError
        ELSE IF a.exp10 >= p
        THEN \* an integer quotient, exact
             LET q == [mant |-> a.mant, exp10 |-> a.exp10 - p]
             IN  IF Len(Digits(q.mant)) + q.exp10 > 21
                 THEN sign \o NonNegativeToString(q)
                 ELSE sign \o NonNegativeToString(q)
                           \o (IF dec = 0 THEN <<>> ELSE <<".">> \o Zeros(dec))
        ELSE LET n    == IntValue(a)
                 d    == Pow10(p)
                 unit == Pow10(p - dec)
                 low  == n \div unit
                 rem  == n % unit
                 up   == \/ 2 * rem > unit
                         \/ 2 * rem = unit /\ DoubleError(n, d) >= 0
             IN  sign \o FixedDigits(IF up THEN low + 1 ELSE low, dec)

\* a variant whose epsilon is 0.1
IsAboutOneTenth(x, p) ==
    IF x.mant <= 0 THEN FALSE
    ELSE IF x.exp10 >= p THEN x.mant = 1 /\ x.exp10 = p
    ELSE Abs(IntValue(x) - Pow10(p)) < Pow10(p - 1)

\* Math.abs(number / divisor - 1) < 0.0001 for divisor = 10^p, p >= 4.  The
\* subtraction is exact near 1, and the double 0.0001 exceeds 1/10000 by
\* less than any rounding error of the quotient, so at the two integers
\* where |number / divisor - 1| is 1/10000 the rounding of the quotient decides.
IsAboutOne(x, p) ==
    IF x.mant <= 0 THEN FALSE
    ELSE IF x.exp10 >= p THEN x.mant = 1 /\ x.exp10 = p
    ELSE LET n     == IntValue(x)
             d     == Pow10(p)
             width == Pow10(p - 4)
         IN  \/ Abs(n - d) < width
             \/ n = d + width /\ DoubleError(n, d) <= 0
             \/ n = d - width /\ DoubleError(n, d) >= 0

-----------------------------------------------------------------------------
(* Number formatting                                                       *)

\* str.slice(from, to) for 0 <= from
Slice(str, from, to) == SubSeq(str, from + 1, to)

Max(a, b) == IF a > b THEN a ELSE b

\* for (let i = remaining.length; i > 0; i -= 2)
\*     pairs.unshift(remaining.slice(Math.max(0, i - 2), i))
RECURSIVE Pairs(_, _)
Pairs(remaining, i) ==
    IF i > 0
    THEN Pairs(remaining, i - 2) \o <<Slice(remaining, Max(0, i - 2), i)>>
    ELSE <<>>

\* pairs.join(",")
RECURSIVE Join(_)
Join(pairs) ==
    IF pairs = <<>> THEN <<>>
    ELSE IF Len(pairs) = 1 THEN pairs[1]
    ELSE pairs[1] \o <<",">> \o Join(Tail(pairs))

\* a variant that falls back to Devanagari digits when no language is given
LocalizeOrHindi(res, native, lang) ==
    IF native
    THEN toNativeNumerals(res, IF Falsy(lang) THEN "hi" ELSE lang)
    ELSE res

\* a variant that substitutes the Devanagari digits whatever the language
LocalizeInHindi(res, native, lang) ==
    IF native /\ ~Falsy(lang) THEN toNativeNumerals(res, "hi") ELSE res

\* useNativeDigits && languageCode ? toNativeNumerals(result, languageCode) : result
Localize(res, native, lang) ==
    IF native /\ ~Falsy(lang) THEN toNativeNumerals(res, lang) ELSE res

\* a variant with the length test off by one
IsShortOffByOne(numStr) == Len(numStr) <= 2

\* numStr.length <= 3: nothing to group
IsShort(numStr) == Len(numStr) <= 3

formatIndianNumber(x, native, lang) ==
    LET numStr     == NumberToString(MathAbs(x))
        isNegative == IsNegative(x)
    IN  IF IsShort(numStr)
        THEN Localize(IF isNegative THEN <<"-">> \o numStr ELSE numStr, native, lang)
        ELSE LET lastThree == SubSeq(numStr, Len(numStr) - 2, Len(numStr))
                 remaining == Slice(numStr, 0, Len(numStr) - 3)
                 pairs     == Pairs(remaining, Len(remaining))
                 formatted == Join(pairs) \o <<",">> \o lastThree
             IN  Localize(IF isNegative THEN <<"-">> \o formatted ELSE formatted,
                          native, lang)

formatLakhs(x, dec, native, lang) ==
    LET places == OrDefault(dec, 2)   \* decimals: number = 2
        formatted == toFixed(x, 5, places)
        suffix    == IF IsAboutOne(x, 5) THEN Chars("lakh") ELSE Chars("lakhs")
    IN  IF formatted = RangeError THEN RangeError
        ELSE Localize(formatted \o <<" ">> \o suffix, native, lang)

formatCrores(x, dec, native, lang) ==
    LET places == OrDefault(dec, 2)   \* decimals: number = 2
        formatted == toFixed(x, 7, places)
        suffix    == IF IsAboutOne(x, 7) THEN Chars("crore") ELSE Chars("crores")
    IN  IF formatted = RangeError THEN RangeError
        ELSE Localize(formatted \o <<" ">> \o suffix, native, lang)

\* a variant whose crore threshold has a zero too few
autoFormatIndianNumberCroreAtTenLakh(x, native, lang) ==
    LET absNumber == MathAbs(x)
    IN  IF GreaterOrEqual(absNumber, 1000000)
        THEN formatCrores(x, Given(2), native, lang)
        ELSE IF GreaterOrEqual(absNumber, 100000)
             THEN formatLakhs(x, Given(2), native, lang)
             ELSE formatIndianNumber(x, native, lang)

autoFormatIndianNumber(x, native, lang) ==
    LET absNumber == MathAbs(x)
    IN  IF GreaterOrEqual(absNumber, 10000000)
        THEN formatCrores(x, Given(2), native, lang)
        ELSE IF GreaterOrEqual(absNumber, 100000)
             THEN formatLakhs(x, Given(2), native, lang)
             ELSE formatIndianNumber(x, native, lang)

-----------------------------------------------------------------------------
(* Date formatting                                                         *)
(*                                                                         *)
(* A Date is held as the three local-time components formatIndianDate      *)
(* reads: day of the month, month counted from 0, and full year.           *)

getDate(d) == d.day
getMonth(d) == d.month
getFullYear(d) == d.year

\* a variant that never pads
padStartNever(str, targetLength, padString) == str

\* String.prototype.padStart for a pad string of one code unit
RECURSIVE padStart(_, _, _)
padStart(str, targetLength, padString) ==
    IF Len(str) >= targetLength
    THEN str
    ELSE padStart(padString \o str, targetLength, padString)

formatIndianDate(d, fmt, native, lang, sep) ==
    LET theFormat == IF fmt = Undefined THEN "DD-MM-YYYY" ELSE fmt
        theSep    == IF sep = Undefined THEN <<"-">> ELSE sep
        day       == padStart(NumberToString(Num(getDate(d))), 2, <<"0">>)
        month     == padStart(NumberToString(Num(getMonth(d) + 1)), 2, <<"0">>)
        year      == NumberToString(Num(getFullYear(d)))
        formatted == IF theFormat = "YYYY-MM-DD"
                     THEN year \o theSep \o month \o theSep \o day
                     ELSE IF theFormat = "MM-DD-YYYY"
                          THEN month \o theSep \o day \o theSep \o year
                          ELSE day \o theSep \o month \o theSep \o year
    IN  Localize(formatted, native, lang)

-----------------------------------------------------------------------------
(* Inputs                                                                  *)

\* codes that are no key of the relation: other language families, Sinhala
\* (listed under its script only), the empty string, an inherited property
NonMemberCodes == {"en", "fr", "si", "", "constructor"}

LanguageCodes == DOMAIN LanguageToScriptMapData \cup NonMemberCodes

\* the language codes the registry is asked about
QueryCodes == LanguageCodes \cup {"de", "toString", "__proto__"}

\* the script codes the registry is asked about: the registered ones, unknown
\* ones, a language code, and names every plain object inherits
ScriptCodes ==
    DOMAIN IndicScriptInfoData
    \cup {"Unknown", "Cyrl", "", "hi", "constructor", "toString", "__proto__"}

\* ASCII digits, other ASCII characters, a Devanagari and an Arabic-Indic digit
Alphabet == {"0", "7", "-", "a", "U+096D", "U+0667"}

Texts == UNION {[1..n -> Alphabet] : n \in 0..MaxLen}

PowersOfTen == {100, 1000, 10000, 100000, 1000000, 10000000, 100000000, 1000000000}

Samples ==
    {123, 99500, 100400, 100499, 100500, 123456, 200000, 250000, 500000, 999999,
     1500000, 9900000, 9995000, 9999000, 9999499, 9999500, 10001000, 10040000, 20000000, 25000000, 50000000,
     123456789, 150000000, 1234567890}

Magnitudes ==
    (0..MaxSmall) \cup Samples
    \cup {p + j : p \in PowersOfTen, j \in 0..NearWidth}
    \cup {p - j : p \in PowersOfTen, j \in 0..NearWidth}

BeyondInt ==
    {[mant |-> m, exp10 |-> k] : m \in 1..MaxLead, k \in (MaxExp10 - 1)..MaxExp10}

Numbers ==
    {Num(n) : n \in Magnitudes} \cup {Num(-n) : n \in Magnitudes}
    \cup BeyondInt \cup {[mant |-> -x.mant, exp10 |-> x.exp10] : x \in BeyondInt}

\* the useNativeDigits / languageCode arguments of the formatters
\* the number of days of a month counted from 0
DaysInMonth(month, year) ==
    IF month = 1
    THEN IF year % 4 = 0 /\ (year % 100 # 0 \/ year % 400 = 0) THEN 29 ELSE 28
    ELSE IF month \in {3, 5, 8, 10} THEN 30 ELSE 31

\* valid calendar dates: one- and two-digit days and months, the ends of
\* the months, years of one to five digits and a year before year 0
Dates ==
    {d \in [day : {1, 5, 10, 29, 31}, month : {0, 1, 9, 11},
            year : {-44, 5, 2024, 2025, 10000}] :
        d.day <= DaysInMonth(d.month, d.year)}

\* options.format: omitted, or one of the three layouts
Formats == {Undefined, "DD-MM-YYYY", "YYYY-MM-DD", "MM-DD-YYYY"}

\* options.separator: omitted, a character, the empty string, a digit
Separators == {Undefined, <<"/">>, <<>>, <<"7">>}

\* the decimals argument: left out, a few digits, and one more than toFixed
\* accepts
DecimalsValues ==
    {Omitted} \cup {Given(d) : d \in (0..MaxDecimals) \cup {MaxFractionDigits + 1}}

NativeOptions ==
    {<<FALSE, Undefined>>, <<FALSE, "hi">>, <<TRUE, Undefined>>, <<TRUE, "">>,
     <<TRUE, "hi">>, <<TRUE, "pa">>, <<TRUE, "ur">>, <<TRUE, "en">>}

-----------------------------------------------------------------------------
(* The calls.  The functions are synchronous: a call is made when none is  *)
(* in progress, and its arguments and result are held until it returns.    *)

Init ==
    /\ LANGUAGE_TO_SCRIPT_MAP = LanguageToScriptMapData
    /\ INDIC_SCRIPT_INFO = IndicScriptInfoData
    /\ NATIVE_DIGITS = NativeDigitsData
    /\ fn = "none"
    /\ number = Num(0)
    /\ decimals = Omitted
    /\ useNativeDigits = FALSE
    /\ languageCode = Undefined
    /\ text = <<>>
    /\ script = Undefined
    /\ date = Undefined
    /\ format = Undefined
    /\ separator = Undefined
    /\ result = <<>>
    /\ thrown = Null

\* toNativeNumerals(text, lang) with a string argument
CallToNativeNumerals ==
    /\ fn = "none"
    /\ \E t \in Texts, lang \in LanguageCodes :
            /\ fn' = "toNativeNumerals"
            /\ text' = t
            /\ languageCode' = lang
            /\ result' = toNativeNumerals(t, lang)
            /\ number' = Num(0) /\ decimals' = Omitted /\ useNativeDigits' = FALSE
            /\ script' = Undefined /\ date' = Undefined
            /\ format' = Undefined /\ separator' = Undefined
            /\ thrown' = Null
            /\ UNCHANGED registry

\* toNativeNumerals(number, lang) with a number argument: String(number) first
CallToNativeNumeralsOfNumber ==
    /\ fn = "none"
    /\ \E x \in Numbers, lang \in LanguageCodes :
            /\ fn' = "toNativeNumerals(number)"
            /\ number' = x
            /\ text' = NumberToString(x)
            /\ languageCode' = lang
            /\ result' = toNativeNumerals(NumberToString(x), lang)
            /\ decimals' = Omitted /\ useNativeDigits' = FALSE
            /\ script' = Undefined /\ date' = Undefined
            /\ format' = Undefined /\ separator' = Undefined
            /\ thrown' = Null
            /\ UNCHANGED registry

CallFromNativeNumerals ==
    /\ fn = "none"
    /\ \E t \in Texts, lang \in LanguageCodes :
            /\ fn' = "fromNativeNumerals"
            /\ text' = t
            /\ languageCode' = lang
            /\ LET r == fromNativeNumerals(t, lang)
               IN  /\ result' = (IF r = SyntaxError THEN <<>> ELSE r)
                   /\ thrown' = (IF r = SyntaxError THEN "SyntaxError" ELSE Null)
            /\ number' = Num(0) /\ decimals' = Omitted /\ useNativeDigits' = FALSE
            /\ script' = Undefined /\ date' = Undefined
            /\ format' = Undefined /\ separator' = Undefined
            /\ UNCHANGED registry

CallFormatIndianNumber ==
    /\ fn = "none"
    /\ \E x \in Numbers, o \in NativeOptions :
            /\ fn' = "formatIndianNumber"
            /\ number' = x
            /\ useNativeDigits' = o[1]
            /\ languageCode' = o[2]
            /\ result' = formatIndianNumber(x, o[1], o[2])
            /\ decimals' = Omitted /\ text' = <<>>
            /\ script' = Undefined /\ date' = Undefined
            /\ format' = Undefined /\ separator' = Undefined
            /\ thrown' = Null
            /\ UNCHANGED registry

CallFormatLakhs ==
    /\ fn = "none"
    /\ \E x \in Numbers, dec \in DecimalsValues, o \in NativeOptions :
            /\ fn' = "formatLakhs"
            /\ number' = x
            /\ decimals' = dec
            /\ useNativeDigits' = o[1]
            /\ languageCode' = o[2]
            /\ LET r == formatLakhs(x, dec, o[1], o[2])
               IN  /\ result' = (IF r = RangeError THEN <<>> ELSE r)
                   /\ thrown' = (IF r = RangeError THEN "RangeError" ELSE Null)
            /\ text' = <<>>
            /\ script' = Undefined /\ date' = Undefined
            /\ format' = Undefined /\ separator' = Undefined
            /\ UNCHANGED registry

CallFormatCrores ==
    /\ fn = "none"
    /\ \E x \in Numbers, dec \in DecimalsValues, o \in NativeOptions :
            /\ fn' = "formatCrores"
            /\ number' = x
            /\ decimals' = dec
            /\ useNativeDigits' = o[1]
            /\ languageCode' = o[2]
            /\ LET r == formatCrores(x, dec, o[1], o[2])
               IN  /\ result' = (IF r = RangeError THEN <<>> ELSE r)
                   /\ thrown' = (IF r = RangeError THEN "RangeError" ELSE Null)
            /\ text' = <<>>
            /\ script' = Undefined /\ date' = Undefined
            /\ format' = Undefined /\ separator' = Undefined
            /\ UNCHANGED registry

CallAutoFormatIndianNumber ==
    /\ fn = "none"
    /\ \E x \in Numbers, o \in NativeOptions :
            /\ fn' = "autoFormatIndianNumber"
            /\ number' = x
            /\ useNativeDigits' = o[1]
            /\ languageCode' = o[2]
            /\ result' = autoFormatIndianNumber(x, o[1], o[2])
            /\ decimals' = Omitted /\ text' = <<>>
            /\ script' = Undefined /\ date' = Undefined
            /\ format' = Undefined /\ separator' = Undefined
            /\ thrown' = Null
            /\ UNCHANGED registry

CallGetScriptForLanguage ==
    /\ fn = "none"
    /\ \E lang \in QueryCodes :
            /\ fn' = "getScriptForLanguage"
            /\ languageCode' = lang
            /\ result' = getScriptForLanguage(lang)
            /\ number' = Num(0) /\ decimals' = Omitted /\ useNativeDigits' = FALSE
            /\ text' = <<>> /\ script' = Undefined /\ date' = Undefined
            /\ format' = Undefined /\ separator' = Undefined
            /\ thrown' = Null
            /\ UNCHANGED registry

\* a variant that stores the list it built back into the mapping
CallGetAllScriptsForLanguageCaching ==
    /\ fn = "none"
    /\ \E lang \in QueryCodes :
            /\ fn' = "getAllScriptsForLanguage"
            /\ languageCode' = lang
            /\ result' = getAllScriptsForLanguage(lang)
            /\ LANGUAGE_TO_SCRIPT_MAP' =
                    IF lang \in DOMAIN LANGUAGE_TO_SCRIPT_MAP
                    THEN [LANGUAGE_TO_SCRIPT_MAP EXCEPT
                             ![lang] = Many(getAllScriptsForLanguage(lang))]
                    ELSE LANGUAGE_TO_SCRIPT_MAP
            /\ number' = Num(0) /\ decimals' = Omitted /\ useNativeDigits' = FALSE
            /\ text' = <<>> /\ script' = Undefined /\ date' = Undefined
            /\ format' = Undefined /\ separator' = Undefined
            /\ thrown' = Null
            /\ UNCHANGED <<INDIC_SCRIPT_INFO, NATIVE_DIGITS>>

CallGetAllScriptsForLanguage ==
    /\ fn = "none"
    /\ \E lang \in QueryCodes :
            /\ fn' = "getAllScriptsForLanguage"
            /\ languageCode' = lang
            /\ result' = getAllScriptsForLanguage(lang)
            /\ number' = Num(0) /\ decimals' = Omitted /\ useNativeDigits' = FALSE
            /\ text' = <<>> /\ script' = Undefined /\ date' = Undefined
            /\ format' = Undefined /\ separator' = Undefined
            /\ thrown' = Null
            /\ UNCHANGED registry

CallIsIndicLanguage ==
    /\ fn = "none"
    /\ \E lang \in QueryCodes :
            /\ fn' = "isIndicLanguage"
            /\ languageCode' = lang
            /\ result' = isIndicLanguage(lang)
            /\ number' = Num(0) /\ decimals' = Omitted /\ useNativeDigits' = FALSE
            /\ text' = <<>> /\ script' = Undefined /\ date' = Undefined
            /\ format' = Undefined /\ separator' = Undefined
            /\ thrown' = Null
            /\ UNCHANGED registry

CallGetScriptDirection ==
    /\ fn = "none"
    /\ \E code \in ScriptCodes :
            /\ fn' = "getScriptDirection"
            /\ script' = code
            /\ result' = getScriptDirection(code)
            /\ number' = Num(0) /\ decimals' = Omitted /\ useNativeDigits' = FALSE
            /\ languageCode' = Undefined /\ text' = <<>> /\ date' = Undefined
            /\ format' = Undefined /\ separator' = Undefined
            /\ thrown' = Null
            /\ UNCHANGED registry

CallHasNativeNumerals ==
    /\ fn = "none"
    /\ \E code \in ScriptCodes :
            /\ fn' = "hasNativeNumerals"
            /\ script' = code
            /\ result' = hasNativeNumerals(code)
            /\ number' = Num(0) /\ decimals' = Omitted /\ useNativeDigits' = FALSE
            /\ languageCode' = Undefined /\ text' = <<>> /\ date' = Undefined
            /\ format' = Undefined /\ separator' = Undefined
            /\ thrown' = Null
            /\ UNCHANGED registry

CallGetIndicScriptName ==
    /\ fn = "none"
    /\ \E code \in ScriptCodes :
            /\ fn' = "getIndicScriptName"
            /\ script' = code
            /\ result' = getIndicScriptName(code)
            /\ number' = Num(0) /\ decimals' = Omitted /\ useNativeDigits' = FALSE
            /\ languageCode' = Undefined /\ text' = <<>> /\ date' = Undefined
            /\ format' = Undefined /\ separator' = Undefined
            /\ thrown' = Null
            /\ UNCHANGED registry

CallFormatIndianDate ==
    /\ fn = "none"
    /\ \E d \in Dates, fmt \in Formats, sep \in Separators, o \in NativeOptions :
            /\ fn' = "formatIndianDate"
            /\ date' = d
            /\ format' = fmt
            /\ separator' = sep
            /\ useNativeDigits' = o[1]
            /\ languageCode' = o[2]
            /\ result' = formatIndianDate(d, fmt, o[1], o[2], sep)
            /\ number' = Num(0) /\ decimals' = Omitted /\ text' = <<>>
            /\ script' = Undefined
            /\ thrown' = Null
            /\ UNCHANGED registry

\* the call returns: its arguments and its result are gone, the caller goes on
Return ==
    /\ fn # "none"
    /\ fn' = "none"
    /\ number' = Num(0) /\ decimals' = Omitted /\ useNativeDigits' = FALSE
    /\ languageCode' = Undefined /\ text' = <<>> /\ result' = <<>>
    /\ script' = Undefined /\ date' = Undefined
    /\ format' = Undefined /\ separator' = Undefined
    /\ thrown' = Null
    /\ UNCHANGED registry

Next ==
    \/ Return
    \/ CallToNativeNumerals
    \/ CallToNativeNumeralsOfNumber
    \/ CallFromNativeNumerals
    \/ CallFormatIndianNumber
    \/ CallFormatLakhs
    \/ CallFormatCrores
    \/ CallAutoFormatIndianNumber
    \/ CallGetScriptForLanguage
    \/ CallGetAllScriptsForLanguage
    \/ CallIsIndicLanguage
    \/ CallGetScriptDirection
    \/ CallHasNativeNumerals
    \/ CallGetIndicScriptName
    \/ CallFormatIndianDate

Spec == Init /\ [][Next]_vars

-----------------------------------------------------------------------------
(* The registry queries with a caller that changes a list it was handed.   *)
(* For a language with several scripts getAllScriptsForLanguage returns    *)
(* the array of LANGUAGE_TO_SCRIPT_MAP itself (the entry is not frozen and *)
(* not copied), for a language with one script a new array.                *)

\* Array.prototype.reverse
Reverse(list) == [i \in 1..Len(list) |-> list[Len(list) - i + 1]]

\* Array.prototype.pop: the list without its last element
Pop(list) == SubSeq(list, 1, Len(list) - 1)

\* what the caller may do to a list: reorder it, remove an element
ListChanges(list) == {Reverse(list), Pop(list)} \ {list}

\* the list just returned is an array of the mapping
ReturnedListIsOfTheMapping ==
    /\ fn = "getAllScriptsForLanguage"
    /\ languageCode \in DOMAIN LANGUAGE_TO_SCRIPT_MAP
    /\ LANGUAGE_TO_SCRIPT_MAP[languageCode].isArray

\* the call has returned and the caller changes the list in place
CallerChangesReturnedList ==
    /\ fn = "getAllScriptsForLanguage"
    /\ \E changed \in ListChanges(result) :
            LANGUAGE_TO_SCRIPT_MAP' =
                IF ReturnedListIsOfTheMapping
                THEN [LANGUAGE_TO_SCRIPT_MAP EXCEPT ![languageCode] = Many(changed)]
                ELSE LANGUAGE_TO_SCRIPT_MAP
    /\ fn' = "none"
    /\ number' = Num(0) /\ decimals' = Omitted /\ useNativeDigits' = FALSE
    /\ languageCode' = Undefined /\ text' = <<>> /\ result' = <<>>
    /\ script' = Undefined /\ date' = Undefined
    /\ format' = Undefined /\ separator' = Undefined
    /\ thrown' = Null
    /\ UNCHANGED <<INDIC_SCRIPT_INFO, NATIVE_DIGITS>>

NextWithCaller ==
    \/ Return
    \/ CallGetScriptForLanguage
    \/ CallGetAllScriptsForLanguage
    \/ CallIsIndicLanguage
    \/ CallerChangesReturnedList

CallerSpec == Init /\ [][NextWithCaller]_vars

-----------------------------------------------------------------------------
(* The substitution over digit sets other than the defined ones: the       *)
(* Devanagari zero is taken to be a regular-expression metacharacter, and  *)
(* the two numeral conversions are called.                                 *)

\* characters with a meaning of their own in a regular expression
Metacharacters == {".", "+", "^"}

MetacharacterTables ==
    {[NativeDigitsData EXCEPT !["Deva"][1] = c] : c \in Metacharacters}

InitMetacharacterGlyph ==
    /\ LANGUAGE_TO_SCRIPT_MAP = LanguageToScriptMapData
    /\ INDIC_SCRIPT_INFO = IndicScriptInfoData
    /\ NATIVE_DIGITS \in MetacharacterTables
    /\ fn = "none"
    /\ number = Num(0)
    /\ decimals = Omitted
    /\ useNativeDigits = FALSE
    /\ languageCode = Undefined
    /\ text = <<>>
    /\ script = Undefined
    /\ date = Undefined
    /\ format = Undefined
    /\ separator = Undefined
    /\ result = <<>>
    /\ thrown = Null

NextNumerals ==
    \/ Return
    \/ CallToNativeNumerals
    \/ CallFromNativeNumerals

MetacharacterGlyphSpec == InitMetacharacterGlyph /\ [][NextNumerals]_vars

-----------------------------------------------------------------------------
(* Vocabulary of the properties                                            *)

\* the decimal digits of |x|, written out in full
DecimalExpansion(x) == Digits(Abs(x.mant)) \o Zeros(x.exp10)

\* the result without its sign
Unsigned(res) == IF res # <<>> /\ res[1] = "-" THEN Tail(res) ELSE res

EndsWith(str, suffix) ==
    /\ Len(str) >= Len(suffix)
    /\ SubSeq(str, Len(str) - Len(suffix) + 1, Len(str)) = suffix

\* the first-listed script of a language of the relation, read off the data
PrimaryScript(lang) == LanguageToScriptMapData[lang].scripts[1]

IsMember(lang) == lang \in DOMAIN LanguageToScriptMapData

\* the digit a glyph of the given digit set stands for, or -1
DigitOfGlyph(glyphs, c) ==
    IF \E d \in 0..9 : glyphs[d + 1] = c
    THEN CHOOSE d \in 0..9 : glyphs[d + 1] = c
    ELSE -1

\* body is the digit string ds cut into groups: counted from the right, the
\* commas stand at places 4, 7, 10, ... and the digits fill the other places
Grouped(body, ds) ==
    LET L      == Len(ds)
        commas == (L - 2) \div 2
        B      == Len(body)
    IN  /\ B = L + commas
        /\ \A p \in 1..B :
              LET c == body[B - p + 1]
              IN  IF p >= 4 /\ (p - 4) % 3 = 0
                  THEN c = ","
                  ELSE LET passed == IF p < 4 THEN 0 ELSE (p - 4) \div 3 + 1
                       IN  c = ds[L - (p - passed) + 1]

-----------------------------------------------------------------------------
(* Properties                                                              *)

\* C1: for every integer n with more than 3 decimal digits, formatIndianNumber(n)
\* is the digits of |n| with the last 3 as the final group and the leading
\* digits in groups of 2 taken from the right, joined by ","; 123456789 gives
\* "12,34,56,789" and 1000000000 gives "1,00,00,00,000".
C1_GroupsOfTwoThenThree ==
    (fn = "formatIndianNumber" /\ ~useNativeDigits
        /\ Len(DecimalExpansion(number)) > 3)
    => /\ Grouped(Unsigned(result), DecimalExpansion(number))
       /\ number = Num(123456789) => result = Chars("12,34,56,789")
       /\ number = Num(1000000000) => result = Chars("1,00,00,00,000")

\* C2: for every integer n with |n| <= 999, formatIndianNumber(n) is the digit
\* string of |n| with no comma, prefixed by "-" when n < 0.
C2_NoCommaUpTo999 ==
    (fn = "formatIndianNumber" /\ ~useNativeDigits
        /\ number.exp10 = 0 /\ Abs(number.mant) <= 999)
    => /\ result = (IF number.mant < 0 THEN <<"-">> ELSE <<>>)
                   \o DecimalExpansion(number)
       /\ \A i \in 1..Len(result) : result[i] # ","

C2_Witness ==
    /\ fn = "formatIndianNumber" /\ ~useNativeDigits
    /\ number = Num(-999) /\ result = Chars("-999")

\* C3: for every n > 0, formatIndianNumber(-n) is "-" followed by
\* formatIndianNumber(n); the result for n >= 0 never starts with "-"; the sign
\* is no part of a group (-1000 gives "-1,000", -100000 gives "-1,00,000").
C3_SignPreserved ==
    (fn = "formatIndianNumber" /\ ~useNativeDigits)
    => /\ number.mant < 0 =>
              /\ result = <<"-">> \o formatIndianNumber(MathAbs(number), FALSE, Undefined)
              /\ Len(result) >= 2 /\ result[2] \notin {"-", ","}
       /\ number.mant >= 0 => result[1] # "-"
       /\ number = Num(-1000) => result = Chars("-1,000")
       /\ number = Num(-100000) => result = Chars("-1,00,000")

C3_Witness ==
    /\ fn = "formatIndianNumber" /\ ~useNativeDigits
    /\ number = Num(-100000) /\ result = Chars("-1,00,000")

\* the magnitude of a number argument is at least the power of ten 10^p
AtLeastPow10(x, p) ==
    x.mant # 0 /\ Len(DecimalExpansion(x)) >= p + 1

\* C4: autoFormatIndianNumber(n) is formatCrores(n, 2) when |n| >= 10,000,000,
\* else formatLakhs(n, 2) when |n| >= 100,000, else formatIndianNumber(n);
\* 99999 gives "99,999", 100000 "1.00 lakh", 9999999 is in lakhs, 10000000
\* gives "1.00 crore"; a negative n takes the branch of -n.
C4_DispatchOnMagnitude ==
    fn = "autoFormatIndianNumber"
    => /\ result =
            IF AtLeastPow10(number, 7)
            THEN formatCrores(number, Given(2), useNativeDigits, languageCode)
            ELSE IF AtLeastPow10(number, 5)
                 THEN formatLakhs(number, Given(2), useNativeDigits, languageCode)
                 ELSE formatIndianNumber(number, useNativeDigits, languageCode)
       /\ ~useNativeDigits =>
            /\ number = Num(99999) => result = Chars("99,999")
            /\ number = Num(100000) => result = Chars("1.00 lakh")
            /\ number = Num(9999999) => EndsWith(result, Chars(" lakhs"))
            /\ number = Num(10000000) => result = Chars("1.00 crore")
            /\ number = Num(-99999) => result = Chars("-99,999")
            /\ number = Num(-9999999) => EndsWith(result, Chars(" lakhs"))
            /\ number = Num(-10000000) => EndsWith(result, Chars(" crores"))

C4_Witness ==
    /\ fn = "autoFormatIndianNumber" /\ ~useNativeDigits
    /\ number = Num(10000000) /\ result = Chars("1.00 crore")

\* C5: the label of formatLakhs and formatCrores follows the absolute quotient:
\* for every integer n, positive or negative, the singular label is appended
\* exactly when | |n| / unit - 1 | < 0.0001, so -100000 gets "lakh" and
\* -10000000 gets "crore".
C5_LabelFollowsAbsoluteQuotient ==
    /\ (fn = "formatLakhs" /\ ~useNativeDigits /\ thrown = Null)
       => (EndsWith(result, Chars(" lakh")) <=> IsAboutOne(MathAbs(number), 5))
    /\ (fn = "formatCrores" /\ ~useNativeDigits /\ thrown = Null)
       => (EndsWith(result, Chars(" crore")) <=> IsAboutOne(MathAbs(number), 7))

\* C6: round trip: for every string s of ASCII digits, and the decimal string
\* of every non-negative integer, and every language code of the relation,
\* fromNativeNumerals(toNativeNumerals(s, lang), lang) = s.
C6_RoundTrip ==
    /\ (fn = "toNativeNumerals" /\ IsMember(languageCode)
            /\ \A i \in 1..Len(text) : IsAsciiDigit(text[i]))
       => fromNativeNumerals(result, languageCode) = text
    /\ (fn = "toNativeNumerals(number)" /\ IsMember(languageCode)
            /\ number.mant >= 0)
       => fromNativeNumerals(result, languageCode) = NumberToString(number)

C6_Witness ==
    /\ fn = "toNativeNumerals" /\ languageCode = "hi"
    /\ text = <<"7", "0">> /\ result = <<"U+096D", "U+0966">>

\* C7: for every language code whose primary script is recorded as having
\* native digits, toNativeNumerals replaces every ASCII digit d by glyph d of
\* that script's digit set, so the result holds no ASCII digit; pa uses the
\* Gurmukhi digits and mni the Bengali digits.
C7_EveryDigitReplaced ==
    (fn \in {"toNativeNumerals", "toNativeNumerals(number)"}
        /\ IsMember(languageCode)
        /\ IndicScriptInfoData[PrimaryScript(languageCode)].hasNativeNumerals)
    => /\ Len(result) = Len(text)
       /\ \A i \in 1..Len(result) :
            /\ ~IsAsciiDigit(result[i])
            /\ IsAsciiDigit(text[i]) =>
                 result[i] = DocumentedNativeNumerals[PrimaryScript(languageCode)]
                                                     [parseInt(text[i]) + 1]

\* C8: identity fallback: for every language code that is no key of the
\* relation, or whose primary script has no native digits, toNativeNumerals
\* returns String(value) unchanged; toNativeNumerals(123, "en") = "123".
C8_IdentityFallback ==
    /\ (fn \in {"toNativeNumerals", "toNativeNumerals(number)"}
            /\ \/ ~IsMember(languageCode)
               \/ ~IndicScriptInfoData[PrimaryScript(languageCode)].hasNativeNumerals)
       => result = text
    /\ (fn = "toNativeNumerals(number)" /\ ~IsMember(languageCode)
            /\ number.exp10 = 0)
       => Unsigned(result) = DecimalExpansion(number)

C8_Witness ==
    /\ fn = "toNativeNumerals(number)" /\ languageCode = "en"
    /\ number = Num(123) /\ result = Chars("123")

\* C9: toNativeNumerals never changes a non-digit character: the output is as
\* long as the input, and every place that holds a character other than an
\* ASCII digit holds the same character in the output.
C9_NonDigitsUntouched ==
    fn \in {"toNativeNumerals", "toNativeNumerals(number)"}
    => /\ Len(result) = Len(text)
       /\ \A i \in 1..Len(text) : ~IsAsciiDigit(text[i]) => result[i] = text[i]

C9_Witness ==
    /\ fn = "toNativeNumerals" /\ languageCode = "hi"
    /\ text = <<"-", "7", "a">> /\ result = <<"-", "U+096D", "a">>

\* C10: fromNativeNumerals(text, lang): when the primary script of the language
\* has native digits, every glyph d of that script in text becomes the ASCII
\* digit d and every other character is kept; when the code is not in the
\* relation or its script has no native digits, text comes back unchanged.
C10_EveryGlyphReplaced ==
    fn = "fromNativeNumerals"
    => IF IsMember(languageCode)
          /\ IndicScriptInfoData[PrimaryScript(languageCode)].hasNativeNumerals
       THEN /\ Len(result) = Len(text)
            /\ \A i \in 1..Len(text) :
                 LET d == DigitOfGlyph(
                            DocumentedNativeNumerals[PrimaryScript(languageCode)],
                            text[i])
                 IN  result[i] = IF d >= 0 THEN DigitToString(d) ELSE text[i]
       ELSE result = text

\* C11: non-member closure: for every string that is no language code of the
\* relation, isIndicLanguage is false, getAllScriptsForLanguage is the empty
\* list and getScriptForLanguage is null.
C11_NonMemberClosure ==
    ~IsMember(languageCode)
    => /\ fn = "isIndicLanguage" => result = FALSE
       /\ fn = "getAllScriptsForLanguage" => result = <<>>
       /\ fn = "getScriptForLanguage" => result = Null

\* C12: for every string x, isIndicLanguage(x) is true exactly when
\* getAllScriptsForLanguage(x) is not empty, and getAllScriptsForLanguage(x) is
\* empty exactly when getScriptForLanguage(x) is null.
C12_QueriesAgree ==
    /\ fn = "isIndicLanguage"
       => /\ result = (Len(getAllScriptsForLanguage(languageCode)) > 0)
          /\ result = (getScriptForLanguage(languageCode) # Null)
    /\ fn = "getAllScriptsForLanguage"
       => /\ (Len(result) > 0) = isIndicLanguage(languageCode)
          /\ (result = <<>>) = (getScriptForLanguage(languageCode) = Null)
    /\ fn = "getScriptForLanguage"
       => (result = Null) = (getAllScriptsForLanguage(languageCode) = <<>>)

C12_Witness ==
    /\ fn = "isIndicLanguage" /\ languageCode = "constructor" /\ result = TRUE
    /\ getAllScriptsForLanguage(languageCode) # <<>>

\* C13: for every language code of the relation, getScriptForLanguage is the
\* first element of getAllScriptsForLanguage; the list is [Guru, Arab] for pa,
\* [Arab, Deva] for ks and sd, [Beng, Mtei] for mni, and has length 1 for
\* every other code.
C13_PrimaryIsFirstOfAll ==
    IsMember(languageCode)
    => /\ fn = "getScriptForLanguage"
          => result = getAllScriptsForLanguage(languageCode)[1]
       /\ fn = "getAllScriptsForLanguage"
          => /\ result[1] = getScriptForLanguage(languageCode)
             /\ result = CASE languageCode = "pa" -> <<"Guru", "Arab">>
                            [] languageCode \in {"ks", "sd"} -> <<"Arab", "Deva">>
                            [] languageCode = "mni" -> <<"Beng", "Mtei">>
                            [] OTHER -> <<result[1]>>

C13_Witness ==
    /\ fn = "getAllScriptsForLanguage" /\ languageCode = "pa"
    /\ result = <<"Guru", "Arab">>

\* the script code is one of the registered ones
IsRegistered(code) == code \in DOMAIN IndicScriptInfoData

\* C14: getIndicScriptName(code) is the registry's display name when code is a
\* registered script code, and for every other string it is that string
\* itself, verbatim.
C14_NameOrEcho ==
    fn = "getIndicScriptName"
    => result = IF IsRegistered(script) THEN IndicScriptInfoData[script].name
                ELSE script

\* C15: getScriptDirection(code) is the direction recorded in the registry for
\* every registered script code, "rtl" for Arab only and "ltr" for all the
\* others, and "ltr" for every string that is no registered script code; the
\* call never raises an exception.
C15_DirectionOrLtr ==
    fn = "getScriptDirection"
    => /\ thrown = Null
       /\ result = (IF script = "Arab" THEN "rtl" ELSE "ltr")
       /\ IsRegistered(script) => result = IndicScriptInfoData[script].direction

C15_Witness ==
    /\ fn = "getScriptDirection" /\ script = "Unknown" /\ result = "ltr"

\* C16: hasNativeNumerals(code) is the flag recorded in the registry for every
\* registered script code, and false for every string that is no registered
\* script code.
C16_FlagOrFalse ==
    fn = "hasNativeNumerals"
    => result = IF IsRegistered(script)
                THEN IndicScriptInfoData[script].hasNativeNumerals
                ELSE FALSE

C16_Witness ==
    /\ fn = "hasNativeNumerals" /\ script = "constructor" /\ result = FALSE

\* a number from 0 to 99 written with exactly two digits
TwoDigits(n) == <<DigitToString(n \div 10), DigitToString(n % 10)>>

\* an integer written in plain decimal
PlainDecimal(n) == (IF n < 0 THEN <<"-">> ELSE <<>>) \o Digits(Abs(n))

\* C17: for every valid calendar date and every separator, formatIndianDate
\* renders the day and the month counted from 1 with exactly 2 digits each,
\* zero-padded, and the year as its plain decimal string, in the order named
\* by format (DD-MM-YYYY by default, or YYYY-MM-DD, or MM-DD-YYYY), with the
\* separator ("-" by default) between consecutive components.
C17_DateAssembly ==
    (fn = "formatIndianDate" /\ ~useNativeDigits)
    => LET dd  == TwoDigits(date.day)
           mm  == TwoDigits(date.month + 1)
           yy  == PlainDecimal(date.year)
           sep == IF separator = Undefined THEN <<"-">> ELSE separator
       IN  /\ format \in {Undefined, "DD-MM-YYYY"}
              => result = dd \o sep \o mm \o sep \o yy
           /\ format = "YYYY-MM-DD" => result = yy \o sep \o mm \o sep \o dd
           /\ format = "MM-DD-YYYY" => result = mm \o sep \o dd \o sep \o yy
           /\ (date = [day |-> 10, month |-> 9, year |-> 2025]
                  /\ separator = Undefined)
              => /\ format = Undefined => result = Chars("10-10-2025")
                 /\ format = "YYYY-MM-DD" => result = Chars("2025-10-10")
           /\ (date = [day |-> 5, month |-> 0, year |-> 2025]
                  /\ separator = Undefined /\ format = Undefined)
              => result = Chars("05-01-2025")

C17_Witness ==
    /\ fn = "formatIndianDate" /\ ~useNativeDigits
    /\ date = [day |-> 5, month |-> 0, year |-> 2025]
    /\ format = "YYYY-MM-DD" /\ separator = <<"/">>
    /\ result = Chars("2025/01/05")

\* C18: digit substitution is the last step: the result of formatIndianNumber,
\* formatLakhs, formatCrores, autoFormatIndianNumber and formatIndianDate
\* called with useNativeDigits true and language L is toNativeNumerals(r, L),
\* where r is the result of the same call with useNativeDigits false.
C18_SubstitutionIsLast ==
    (useNativeDigits /\ languageCode # Undefined /\ thrown = Null)
    => LET L == languageCode
       IN  /\ fn = "formatIndianNumber"
              => result = toNativeNumerals(formatIndianNumber(number, FALSE, L), L)
           /\ fn = "formatLakhs"
              => result = toNativeNumerals(formatLakhs(number, decimals, FALSE, L), L)
           /\ fn = "formatCrores"
              => result = toNativeNumerals(formatCrores(number, decimals, FALSE, L), L)
           /\ fn = "autoFormatIndianNumber"
              => result = toNativeNumerals(autoFormatIndianNumber(number, FALSE, L), L)
           /\ fn = "formatIndianDate"
              => result = toNativeNumerals(
                              formatIndianDate(date, format, FALSE, L, separator), L)

C18_Witness ==
    /\ fn = "formatLakhs" /\ useNativeDigits /\ languageCode = "pa"
    /\ number = Num(123456) /\ decimals = Given(2)
    /\ formatLakhs(number, decimals, FALSE, languageCode) = Chars("1.23 lakhs")
    /\ result = <<"U+0A67", ".", "U+0A68", "U+0A69", " ", "l", "a", "k", "h", "s">>

\* the natural number a string of ASCII digits denotes
RECURSIVE ParseNat(_)
ParseNat(ds) ==
    IF ds = <<>> THEN 0
    ELSE 10 * ParseNat(SubSeq(ds, 1, Len(ds) - 1)) + parseInt(ds[Len(ds)])

AllDigits(ds) == \A i \in 1..Len(ds) : IsAsciiDigit(ds[i])

\* numeral is |x| / 10^p rounded to d digits after the point: an integer part
\* without leading zeros, then "." and exactly d digits when d > 0, at most
\* half a unit of the last digit away from the quotient
IsRounded(numeral, x, p, d) ==
    LET tail == IF d = 0 THEN 0 ELSE d + 1
        ip   == SubSeq(numeral, 1, Len(numeral) - tail)
        fr   == SubSeq(numeral, Len(numeral) - d + 1, Len(numeral))
    IN  /\ Len(numeral) >= 1 + tail
        /\ AllDigits(ip) /\ AllDigits(fr)
        /\ d > 0 => numeral[Len(ip) + 1] = "."
        /\ Len(ip) = 1 \/ ip[1] # "0"
        /\ IF x.exp10 = 0
           THEN LET unit == Pow10(p - d)
                IN  2 * Abs(ParseNat(ip \o fr) * unit - Abs(x.mant)) <= unit
           ELSE /\ ip = Digits(Abs(x.mant)) \o Zeros(x.exp10 - p)
                /\ fr = Zeros(d)

\* res is the signed quotient x / 10^p with d digits after the point, one
\* space, and one of the two labels
IsScaled(res, x, p, d, singular, plural) ==
    \E k \in 1..Len(res) :
        /\ res[k] = " "
        /\ SubSeq(res, k + 1, Len(res)) \in {singular, plural}
        /\ LET quotient == SubSeq(res, 1, k - 1)
           IN  IF x.mant < 0
               THEN /\ quotient # <<>> /\ quotient[1] = "-"
                    /\ IsRounded(Tail(quotient), x, p, d)
               ELSE IsRounded(quotient, x, p, d)

\* C19: formatLakhs(n, d) and formatCrores(n, d) render the quotient n / 100000
\* (n / 10000000) rounded to exactly d digits after the decimal point, with no
\* decimal point when d = 0 and d = 2 when it is left out, keep the sign of n
\* in front of the quotient, and append one space and the label;
\* formatLakhs(100000, 0) is "1 lakh", formatLakhs(123456, 3) is "1.235 lakhs".
C19_QuotientRounded ==
    (fn \in {"formatLakhs", "formatCrores"} /\ ~useNativeDigits /\ thrown = Null)
    => LET d == IF decimals = <<>> THEN 2 ELSE decimals[1]
       IN  /\ fn = "formatLakhs"
              => IsScaled(result, number, 5, d, Chars("lakh"), Chars("lakhs"))
           /\ fn = "formatCrores"
              => IsScaled(result, number, 7, d, Chars("crore"), Chars("crores"))
           /\ (fn = "formatLakhs" /\ number = Num(100000) /\ decimals = <<0>>)
              => result = Chars("1 lakh")
           /\ (fn = "formatLakhs" /\ number = Num(123456) /\ decimals = <<3>>)
              => result = Chars("1.235 lakhs")
           /\ (fn = "formatLakhs" /\ number = Num(123456) /\ decimals = <<>>)
              => result = Chars("1.23 lakhs")

C19_Witness ==
    /\ fn = "formatLakhs" /\ ~useNativeDigits
    /\ number = Num(-123456) /\ decimals = <<3>>
    /\ result = Chars("-1.235 lakhs")

\* C20: no registry or formatter function throws for well-typed input: for
\* every language or script code, every integer, every decimals value that is
\* a non-negative integer, every separator and every date, each call returns
\* a value and raises no exception.
C20_NeverThrows ==
    fn # "none" => thrown = Null

\* the script codes that appear in the language mapping
ReferencedScripts ==
    UNION {{LANGUAGE_TO_SCRIPT_MAP[l].scripts[i] :
                i \in 1..Len(LANGUAGE_TO_SCRIPT_MAP[l].scripts)} :
           l \in DOMAIN LANGUAGE_TO_SCRIPT_MAP}

\* C21: registry referential integrity: every language code of
\* LANGUAGE_TO_SCRIPT_MAP maps to at least one script code, and every script
\* code that appears in LANGUAGE_TO_SCRIPT_MAP is a key of INDIC_SCRIPT_INFO
\* whose entry's code field equals that key.
C21_ReferentialIntegrity ==
    /\ \A l \in DOMAIN LANGUAGE_TO_SCRIPT_MAP :
            Len(LANGUAGE_TO_SCRIPT_MAP[l].scripts) >= 1
    /\ \A sc \in ReferencedScripts :
            /\ sc \in DOMAIN INDIC_SCRIPT_INFO
            /\ INDIC_SCRIPT_INFO[sc].code = sc

C21_Witness ==
    /\ fn = "getAllScriptsForLanguage" /\ languageCode = "mni"
    /\ result = <<"Beng", "Mtei">>
    /\ INDIC_SCRIPT_INFO["Mtei"].code = "Mtei"

\* C22: a script is flagged as having native digits exactly when a digit glyph
\* set is defined for it: for every script code of the registry,
\* hasNativeNumerals(code) is true if and only if NATIVE_DIGITS has an entry
\* for that code.
C22_FlagIffDigitSet ==
    \A code \in DOMAIN INDIC_SCRIPT_INFO :
        hasNativeNumerals(code) <=> code \in DOMAIN NATIVE_DIGITS

\* the value of a hexadecimal digit
HexDigit(c) ==
    IF IsAsciiDigit(c) THEN parseInt(c)
    ELSE CASE c = "A" -> 10 [] c = "B" -> 11 [] c = "C" -> 12
           [] c = "D" -> 13 [] c = "E" -> 14 [] c = "F" -> 15

\* a string is one UTF-16 code unit: an ASCII character or "U+XXXX"
IsCodeUnit(g) == Len(g) = 1 \/ (Len(g) = 6 /\ SubSeq(g, 1, 2) = "U+")

\* the number of the code unit "U+XXXX"
ParseCodeUnit(g) ==
    LET h == Chars(g)
    IN  ((HexDigit(h[3]) * 16 + HexDigit(h[4])) * 16 + HexDigit(h[5])) * 16
        + HexDigit(h[6])

\* the glyphs of the source and of its documentation, with their numbers
KnownGlyphs ==
    UNION {{DocumentedNativeNumerals[sc][i] : i \in 1..10} :
           sc \in DOMAIN DocumentedNativeNumerals}

KnownCodeUnits == [g \in KnownGlyphs |-> ParseCodeUnit(g)]

CodeUnit(g) ==
    IF g \in KnownGlyphs THEN KnownCodeUnits[g] ELSE ParseCodeUnit(g)

\* every digit set of the table has 10 entries, each one code unit, pairwise
\* distinct, none an ASCII digit, and consecutive in Unicode from the first
IsDigitTable(table) ==
    \A sc \in DOMAIN table :
        LET glyphs == table[sc]
        IN  /\ Len(glyphs) = 10
            /\ \A i \in 1..Len(glyphs) :
                    /\ IsCodeUnit(glyphs[i])
                    /\ ~IsAsciiDigit(glyphs[i])
                    /\ CodeUnit(glyphs[i]) = CodeUnit(glyphs[1]) + (i - 1)
            /\ \A i, j \in 1..Len(glyphs) : i # j => glyphs[i] # glyphs[j]

\* the table as the source writes it, examined once
SourceTableIsDigitTable == IsDigitTable(NativeDigitsData)

\* C23: every digit glyph set of NATIVE_DIGITS has exactly 10 entries, each a
\* single character, pairwise distinct within the set, none of them an ASCII
\* digit; the entry at index d stands for digit value d (each script's digits
\* are ten consecutive characters of Unicode, zero first).
C23_TenDistinctGlyphs ==
    IF NATIVE_DIGITS = NativeDigitsData
    THEN SourceTableIsDigitTable
    ELSE IsDigitTable(NATIVE_DIGITS)

C23_Witness ==
    /\ fn = "fromNativeNumerals" /\ languageCode = "hi"
    /\ text = <<"U+096D">> /\ result = <<"7">>
    /\ NATIVE_DIGITS["Deva"][8] = "U+096D"

\* C24: the registry is never mutated: after any sequence of calls of the
\* registry queries and the formatters, in any order, LANGUAGE_TO_SCRIPT_MAP,
\* INDIC_SCRIPT_INFO and NATIVE_DIGITS equal their initial values, so that a
\* call finds the tables, and with them its result, as a call at the start.
C24_RegistryNeverMutated ==
    /\ LANGUAGE_TO_SCRIPT_MAP = LanguageToScriptMapData
    /\ INDIC_SCRIPT_INFO = IndicScriptInfoData
    /\ NATIVE_DIGITS = NativeDigitsData

C24_Witness ==
    /\ fn = "getAllScriptsForLanguage" /\ languageCode = "hi"
    /\ result = <<"Deva">>
    /\ LANGUAGE_TO_SCRIPT_MAP["hi"] = One("Deva")

\* C25: fromNativeNumerals treats every glyph of a digit set as a literal
\* character: were a glyph a regular-expression metacharacter, the
\* substitution would still replace exactly the occurrences of that glyph by
\* its digit, and nothing else, and raise no exception.
C25_GlyphsAreLiteral ==
    (fn = "fromNativeNumerals" /\ IsMember(languageCode)
        /\ PrimaryScript(languageCode) \in DOMAIN NATIVE_DIGITS)
    => /\ thrown = Null
       /\ Len(result) = Len(text)
       /\ \A i \in 1..Len(text) :
            LET d == DigitOfGlyph(NATIVE_DIGITS[PrimaryScript(languageCode)],
                                  text[i])
            IN  i <= Len(result)
                /\ result[i] = IF d >= 0 THEN DigitToString(d) ELSE text[i]

\* C26: the list returned by getAllScriptsForLanguage belongs to the caller:
\* after a caller removed or reordered elements of a returned list, every
\* later call of getScriptForLanguage and getAllScriptsForLanguage, for every
\* language code, pa, ks, sd and mni included, returns what it returned
\* before the change.
C26_ReturnedListIsTheCallers ==
    IsMember(languageCode)
    => /\ fn = "getScriptForLanguage" => result = PrimaryScript(languageCode)
       /\ fn = "getAllScriptsForLanguage"
          => result = LanguageToScriptMapData[languageCode].scripts

\* the call is formatLakhs or formatCrores with 2 decimals and ASCII digits
TwoDecimalsCall(name) ==
    /\ fn = name /\ ~useNativeDigits /\ thrown = Null
    /\ decimals \in {Omitted, Given(2)}

\* the quotient of the result: what stands before the space
ShownQuotient(res) ==
    IF \E k \in 1..Len(res) : res[k] = " "
    THEN SubSeq(res, 1, (CHOOSE k \in 1..Len(res) : res[k] = " ") - 1)
    ELSE res

ReadsOne(res) == ShownQuotient(res) \in {Chars("1.00"), Chars("-1.00")}

LakhRangeCall ==
    /\ fn = "autoFormatIndianNumber" /\ ~useNativeDigits
    /\ number.exp10 = 0
    /\ 100000 <= Abs(number.mant) /\ Abs(number.mant) < 10000000

\* the quotient shown, in hundredths: "99.95" is 9995
ShownHundredths(res) ==
    ParseNat(SelectSeq(ShownQuotient(res), IsAsciiDigit))

\* C28: for every integer n with 100000 <= |n| < 10000000, the quotient that
\* autoFormatIndianNumber(n) renders in lakhs is below 100.00 in magnitude:
\* "100.00 lakhs" is never displayed.
C28_LakhScaleBelowHundred ==
    LakhRangeCall
    => /\ EndsWith(result, Chars(" lakh")) \/ EndsWith(result, Chars(" lakhs"))
       /\ ShownHundredths(result) < 10000

\* C28 as amended: for every integer n with 100000 <= |n| < 10000000, the
\* quotient that autoFormatIndianNumber(n) renders in lakhs is at most 100.00
\* in magnitude, and it reads 100.00 only when |n| >= 9999500.
C28_LakhScaleAtMostHundred ==
    LakhRangeCall
    => /\ EndsWith(result, Chars(" lakh")) \/ EndsWith(result, Chars(" lakhs"))
       /\ ShownHundredths(result) <= 10000
       /\ ShownHundredths(result) = 10000 => Abs(number.mant) >= 9999500

C28_Witness ==
    /\ LakhRangeCall /\ number = Num(9999999)
    /\ result = Chars("100.00 lakhs")

\* C29: when useNativeDigits is true but languageCode is missing or is the
\* empty string, formatIndianNumber, formatLakhs, formatCrores,
\* autoFormatIndianNumber and formatIndianDate return exactly the ASCII string
\* they return with useNativeDigits false, and signal no error.
C29_NoLanguageNoSubstitution ==
    (useNativeDigits /\ languageCode \in {Undefined, ""}
        /\ (decimals = Omitted \/ decimals[1] <= MaxFractionDigits))
    => LET L == languageCode
       IN  /\ thrown = Null
           /\ fn = "formatIndianNumber"
              => result = formatIndianNumber(number, FALSE, L)
           /\ fn = "formatLakhs"
              => result = formatLakhs(number, decimals, FALSE, L)
           /\ fn = "formatCrores"
              => result = formatCrores(number, decimals, FALSE, L)
           /\ fn = "autoFormatIndianNumber"
              => result = autoFormatIndianNumber(number, FALSE, L)
           /\ fn = "formatIndianDate"
              => result = formatIndianDate(date, format, FALSE, L, separator)
           /\ fn # "none"
              => \A i \in 1..Len(result) : result[i] \notin KnownGlyphs

C29_Witness ==
    /\ fn = "formatIndianNumber" /\ useNativeDigits /\ languageCode = ""
    /\ number = Num(123456) /\ result = Chars("1,23,456")

\* the elements of a list
Elements(list) == {list[i] : i \in 1..Len(list)}

\* the language codes either table names
NamedLanguages ==
    DOMAIN LANGUAGE_TO_SCRIPT_MAP
    \cup UNION {Elements(INDIC_SCRIPT_INFO[sc].languages) : sc \in DOMAIN INDIC_SCRIPT_INFO}

\* C30: the two registry tables agree in both directions: a language code L is
\* listed in INDIC_SCRIPT_INFO[S].languages if and only if S is one of the
\* scripts LANGUAGE_TO_SCRIPT_MAP gives for L.
C30_TablesAgree ==
    \A sc \in DOMAIN INDIC_SCRIPT_INFO : \A l \in NamedLanguages :
        l \in Elements(INDIC_SCRIPT_INFO[sc].languages)
        <=> /\ l \in DOMAIN LANGUAGE_TO_SCRIPT_MAP
            /\ sc \in Elements(LANGUAGE_TO_SCRIPT_MAP[l].scripts)

====
